---- MODULE Spec2Model ----
(***************************************************************************)
(* A model of pydid's DIDUrl (src/pydid/did_url.py): the constructor that  *)
(* parses a DID URL, unparse, as_absolute, is_valid and validate.          *)
(*                                                                         *)
(* A Python string is a sequence of one-character strings.  An Optional    *)
(* value is a sequence of length at most one: None is << >> and a present  *)
(* value x is <<x>>.  A dict is a sequence of <<key, value>> pairs with    *)
(* distinct keys, in insertion order.                                      *)
(***************************************************************************)
EXTENDS Integers, Sequences, FiniteSets, TLC

VARIABLES pc, op, arg, ret, receiver

vars == <<pc, op, arg, ret, receiver>>

None == << >>

Some(x) == <<x>>

\* Python truthiness of an Optional[str] / Optional[dict]: None, "" and {} are falsy.
Truthy(o) == /\ o /= None
             /\ o[1] /= << >>

\* `x or None` for a str x.
OrNone(x) == IF x = << >> THEN None ELSE Some(x)

-----------------------------------------------------------------------------
(* Bounds of the model. *)

MaxTail == 4

MaxPathLen == 2

MaxPairs == 1

MaxInt == 1

-----------------------------------------------------------------------------
(* Character classes. *)

Lower == {"a", "b", "c", "d", "e", "f", "g", "h", "i", "j", "k", "l", "m",
          "n", "o", "p", "q", "r", "s", "t", "u", "v", "w", "x", "y", "z"}

Upper == {"A", "B", "C", "D", "E", "F", "G", "H", "I", "J", "K", "L", "M",
          "N", "O", "P", "Q", "R", "S", "T", "U", "V", "W", "X", "Y", "Z"}

Digit == {"0", "1", "2", "3", "4", "5", "6", "7", "8", "9"}

\* <method> of the DID grammar: lowercase letters and digits.
MethodChars == Lower \cup Digit

\* <method-specific-id> of the DID grammar.
IdChars == Lower \cup Upper \cup Digit \cup {".", "-", "_", ":"}

-----------------------------------------------------------------------------
(* String primitives, as Python's str computes them. *)

Tail2(s, n) == SubSeq(s, n, Len(s))

\* s.startswith(p)
StartsWith(s, p) == /\ Len(s) >= Len(p)
                    /\ SubSeq(s, 1, Len(p)) = p

\* s.find(p, start): the least 1-based index >= start at which p occurs, 0 if none.
Find(s, p, start) ==
    LET hits == {i \in start..(Len(s) - Len(p) + 1) : SubSeq(s, i, i + Len(p) - 1) = p}
    IN  IF hits = {} THEN 0 ELSE CHOOSE i \in hits : \A j \in hits : i <= j

Contains(s, p) == Find(s, p, 1) /= 0

\* s.split(sep, maxsplit) for a non-empty sep; maxsplit < 0 means no limit.
RECURSIVE SplitMax(_, _, _)
SplitMax(s, sep, maxsplit) ==
    LET i == Find(s, sep, 1)
    IN  IF i = 0 \/ maxsplit = 0
          THEN <<s>>
          ELSE <<SubSeq(s, 1, i - 1)>> \o
               SplitMax(Tail2(s, i + Len(sep)), sep, maxsplit - 1)

Split(s, sep) == SplitMax(s, sep, -1)

\* The length of the longest prefix of s made of characters of class.
RECURSIVE Run(_, _)
Run(s, class) ==
    IF s /= << >> /\ s[1] \in class THEN 1 + Run(Tail(s), class) ELSE 0

-----------------------------------------------------------------------------
(* The two grammars of pydid.common. *)

\* DID_URL_DID_PART_PATTERN.match(url): None, or the matched DID text (group 1).
\* Anchored at the start: "did:", a run of method characters, ":", a greedy
\* run of method-specific-id characters.
MatchDidPart(url) ==
    IF ~StartsWith(url, <<"d", "i", "d", ":">>) THEN None
    ELSE LET m == Run(Tail2(url, 5), MethodChars)
         IN  IF m = 0 \/ Len(url) < 5 + m \/ url[5 + m] /= ":" THEN None
             ELSE LET k == Run(Tail2(url, 6 + m), IdChars)
                  IN  IF k = 0 THEN None
                      ELSE Some(SubSeq(url, 1, 5 + m + k))

\* DID_URL_RELATIVE_FRONT.match(url): the string starts with '/', '?' or '#'.
MatchRelativeFront(url) ==
    /\ url /= << >>
    /\ url[1] \in {"/", "?", "#"}

-----------------------------------------------------------------------------
(* urllib.parse, as called by DIDUrl: quote_plus / urlencode, unquote /    *)
(* parse_qsl and urlparse, on printable ASCII.                             *)

\* The printable ASCII characters, code 32 (space) first; "GRAVE" stands
\* for the grave accent (code 96), which a TLA+ string cannot hold.
Ascii == <<
    " ", "!", "\"", "#", "$", "%", "&", "'", "(", ")", "*", "+",
    ",", "-", ".", "/", "0", "1", "2", "3", "4", "5", "6", "7",
    "8", "9", ":", ";", "<", "=", ">", "?", "@", "A", "B", "C",
    "D", "E", "F", "G", "H", "I", "J", "K", "L", "M", "N", "O",
    "P", "Q", "R", "S", "T", "U", "V", "W", "X", "Y", "Z", "[",
    "\\", "]", "^", "_", "GRAVE", "a", "b", "c", "d", "e", "f", "g",
    "h", "i", "j", "k", "l", "m", "n", "o", "p", "q", "r", "s",
    "t", "u", "v", "w", "x", "y", "z", "{", "|", "}", "~">>

HexDigits == <<"0", "1", "2", "3", "4", "5", "6", "7", "8", "9",
               "A", "B", "C", "D", "E", "F">>

LowerHex == <<"0", "1", "2", "3", "4", "5", "6", "7", "8", "9",
              "a", "b", "c", "d", "e", "f">>

\* ord(c) of a printable ASCII character.
Ord(c) == 31 + CHOOSE i \in 1..Len(Ascii) : Ascii[i] = c

IsHex(c) == \E i \in 1..16 : HexDigits[i] = c \/ LowerHex[i] = c

HexVal(c) == (CHOOSE i \in 1..16 : HexDigits[i] = c \/ LowerHex[i] = c) - 1

\* quote()'s _ALWAYS_SAFE set: never percent-encoded.
AlwaysSafe == Lower \cup Upper \cup Digit \cup {"_", ".", "-", "~"}

\* quote_plus(s) with safe='': safe characters kept, ' ' becomes '+', every
\* other character becomes %XX in upper-case hex.
RECURSIVE quote_plus(_)
quote_plus(s) ==
    IF s = << >> THEN << >>
    ELSE LET c == s[1]
             enc == IF c \in AlwaysSafe THEN <<c>>
                    ELSE IF c = " " THEN <<"+">>
                    ELSE <<"%", HexDigits[(Ord(c) \div 16) + 1],
                                HexDigits[(Ord(c) % 16) + 1]>>
         IN  enc \o quote_plus(Tail(s))

\* urlencode(query) of a dict of str to str: quote_plus(k)=quote_plus(v)
\* joined by '&'.
RECURSIVE urlencode(_)
urlencode(query) ==
    IF query = << >> THEN << >>
    ELSE LET kv == quote_plus(query[1][1]) \o <<"=">> \o quote_plus(query[1][2])
         IN  IF Len(query) = 1 THEN kv
             ELSE kv \o <<"&">> \o urlencode(Tail(query))

\* unquote(s): %XX with two hex digits decodes to the character of that
\* code; any other '%' is kept as it is.  (Codes outside printable ASCII do
\* not arise: no input of the model holds a raw '%'.)
RECURSIVE unquote(_)
unquote(s) ==
    IF s = << >> THEN << >>
    ELSE IF /\ s[1] = "%"
            /\ Len(s) >= 3
            /\ IsHex(s[2])
            /\ IsHex(s[3])
            /\ 16 * HexVal(s[2]) + HexVal(s[3]) \in 32..126
         THEN <<Ascii[16 * HexVal(s[2]) + HexVal(s[3]) - 31]>> \o unquote(Tail2(s, 4))
         ELSE <<s[1]>> \o unquote(Tail(s))

\* s.replace('+', ' ')
RECURSIVE PlusToSpace(_)
PlusToSpace(s) ==
    IF s = << >> THEN << >>
    ELSE <<IF s[1] = "+" THEN " " ELSE s[1]>> \o PlusToSpace(Tail(s))

\* parse_qsl(qs) with its defaults (keep_blank_values=False,
\* strict_parsing=False, separator='&'): the list of decoded (name, value)
\* pairs.  A field without '=' or with an empty value is skipped.
RECURSIVE QslFields(_)
QslFields(fields) ==
    IF fields = << >> THEN << >>
    ELSE LET nv == SplitMax(fields[1], <<"=">>, 1)
             rest == QslFields(Tail(fields))
         IN  IF fields[1] = << >> \/ Len(nv) /= 2 \/ nv[2] = << >>
               THEN rest
               ELSE <<<<unquote(PlusToSpace(nv[1])), unquote(PlusToSpace(nv[2]))>>>> \o rest

parse_qsl(qs) == IF qs = << >> THEN << >> ELSE QslFields(Split(qs, <<"&">>))

\* dict(pairs): a later pair with a key already present replaces that
\* key's value and keeps its position.
RECURSIVE DictFrom(_, _)
DictFrom(acc, pairs) ==
    IF pairs = << >> THEN acc
    ELSE LET k == pairs[1][1]
             at == {i \in 1..Len(acc) : acc[i][1] = k}
         IN  IF at = {}
               THEN DictFrom(Append(acc, pairs[1]), Tail(pairs))
               ELSE DictFrom([acc EXCEPT ![CHOOSE i \in at : TRUE] = pairs[1]],
                             Tail(pairs))

dict(pairs) == DictFrom(<< >>, pairs)

\* _splitnetloc(url, 2): the netloc runs to the first of '/', '?', '#'.
SplitNetloc(url) ==
    LET ends == {i \in 3..Len(url) : url[i] \in {"/", "?", "#"}}
        delim == IF ends = {} THEN Len(url) + 1
                 ELSE CHOOSE i \in ends : \A j \in ends : i <= j
    IN  <<SubSeq(url, 3, delim - 1), Tail2(url, delim)>>

\* _splitparams(url): params of the last path segment.
SplitParams(url) ==
    LET slashes == {i \in 1..Len(url) : url[i] = "/"}
        last == IF slashes = {} THEN 1
                ELSE CHOOSE i \in slashes : \A j \in slashes : j <= i
        i == Find(url, <<";">>, last)
    IN  IF i = 0 THEN <<url, << >> >>
        ELSE <<SubSeq(url, 1, i - 1), Tail2(url, i + 1)>>

\* urlparse(url): scheme, netloc, path, params, query, fragment.  (The
\* stripping of control characters and the IPv6 bracket check act on
\* characters no input of the model holds.)
urlparse(url) ==
    LET colon == Find(url, <<":">>, 1)
        hasScheme == /\ colon > 1
                     /\ url[1] \in Lower \cup Upper
                     /\ \A j \in 1..(colon - 1) :
                           url[j] \in Lower \cup Upper \cup Digit \cup {"+", "-", "."}
        scheme == IF hasScheme THEN SubSeq(url, 1, colon - 1) ELSE << >>
        u1 == IF hasScheme THEN Tail2(url, colon + 1) ELSE url
        hasNetloc == StartsWith(u1, <<"/", "/">>)
        netloc == IF hasNetloc THEN SplitNetloc(u1)[1] ELSE << >>
        u2 == IF hasNetloc THEN SplitNetloc(u1)[2] ELSE u1
        byHash == SplitMax(u2, <<"#">>, 1)
        fragment == IF Len(byHash) = 2 THEN byHash[2] ELSE << >>
        byQuery == SplitMax(byHash[1], <<"?">>, 1)
        query == IF Len(byQuery) = 2 THEN byQuery[2] ELSE << >>
        u3 == byQuery[1]
        hasParams == Contains(u3, <<";">>)
    IN  [scheme |-> scheme, netloc |-> netloc,
         path |-> IF hasParams THEN SplitParams(u3)[1] ELSE u3,
         params |-> IF hasParams THEN SplitParams(u3)[2] ELSE << >>,
         query |-> query, fragment |-> fragment]

-----------------------------------------------------------------------------
(* Outcomes of a call: a returned value or a raised exception. *)

Ok(v) == [kind |-> "ok", value |-> <<v>>, msg |-> << >>]

Raise(kind, msg) == [kind |-> kind, value |-> << >>, msg |-> msg]

\* Mutant: is_valid catches InvalidDIDUrlError alone.
IsInvalidDIDUrlErrorOnly(kind) == kind = "InvalidDIDUrlError"

\* class InvalidDIDUrlError(DIDError, ValueError): what `except ValueError` catches.
IsValueError(kind) == kind \in {"ValueError", "InvalidDIDUrlError"}

-----------------------------------------------------------------------------
(* class DIDUrl(str) *)

\* The str value of the new object: DIDUrl(url) is the string url itself.
StrNew(url) == url

\* __init__, lines 40-43: the url_component decomposed by urlparse.
Decompose(url, did, url_component) ==
    LET parts == urlparse(url_component)
    IN  [text |-> StrNew(url),
         did |-> did,
         path |-> OrNone(parts.path),
         query |-> IF parts.query /= << >>
                     THEN Some(dict(parse_qsl(parts.query)))
                     ELSE None,
         fragment |-> OrNone(parts.fragment)]

\* `_, url_component = url.split(self.did)`: the unpacking needs exactly
\* two parts, and raises ValueError on any other number.
SplitDid(url, did) ==
    LET parts == Split(url, did)
    IN  IF Len(parts) = 2 THEN Ok(parts[2])
        ELSE Raise("ValueError", <<"too many values to unpack (expected 2)">>)

\* DIDUrl.__init__(url)
DIDUrlInit(url) ==
    LET matches == MatchDidPart(url)
    IN  IF matches /= None
          THEN LET did == matches[1]
                   split == SplitDid(url, did)
               IN  IF split.kind /= "ok" THEN split
                   ELSE Ok(Decompose(url, Some(did), split.value[1]))
          ELSE IF ~MatchRelativeFront(url)
                 THEN Raise("InvalidDIDUrlError",
                            url \o <<" is not a valid absolute or relative DID URL">>)
                 ELSE Ok(Decompose(url, None, url))

\* DIDUrl.parse(url)
parse(url) == DIDUrlInit(url)

\* DIDUrl.validate(url)
validate(url) == parse(url)

\* DIDUrl.is_valid(url): False on a ValueError, True otherwise; any other
\* exception propagates.
is_valid(url) ==
    LET r == validate(url)
    IN  IF r.kind = "ok" THEN Ok(TRUE)
        ELSE IF IsValueError(r.kind) THEN Ok(FALSE)
        ELSE r

\* A fragment argument is <<"none">>, <<"str", s>> or <<"int", n>>.
FragTruthy(f) == \/ f[1] = "str" /\ f[2] /= << >>
                 \/ f[1] = "int" /\ f[2] /= 0

\* str(n) of a non-negative int.
RECURSIVE IntStr(_)
IntStr(n) ==
    IF n < 10 THEN <<HexDigits[n + 1]>>
    ELSE IntStr(n \div 10) \o <<HexDigits[(n % 10) + 1]>>

\* str(fragment)
FragStr(f) == IF f[1] = "int" THEN IntStr(f[2]) ELSE f[2]

\* Mutant: the path used as given, no '/' prepended.
UnparsePathAsGiven(path) == path

\* unparse, lines 76-77: the path with '/' prepended when it lacks one.
UnparsePath(path) ==
    IF Truthy(path) /\ ~StartsWith(path[1], <<"/">>)
      THEN Some(<<"/">> \o path[1])
      ELSE path

\* unparse, line 85: `str(fragment) if fragment else None`.
UnparseFragment(fragment) ==
    IF FragTruthy(fragment) THEN Some(FragStr(fragment)) ELSE None

\* unparse, lines 75-87: the string handed to the constructor.
UnparseValue(did, path, query, fragment) ==
    LET p == UnparsePath(path)
        f == UnparseFragment(fragment)
    IN  did
        \o (IF Truthy(p) THEN p[1] ELSE << >>)
        \o (IF Truthy(query) THEN <<"?">> \o urlencode(query[1]) ELSE << >>)
        \o (IF Truthy(f) THEN <<"#">> \o f[1] ELSE << >>)

\* DIDUrl.unparse(did, path, query, fragment)
unparse(did, path, query, fragment) ==
    DIDUrlInit(UnparseValue(did, path, query, fragment))

\* A fragment field of a DIDUrl, passed back as an argument.
AsFragArg(fragment) ==
    IF fragment = None THEN <<"none">> ELSE <<"str", fragment[1]>>

\* Mutant: a receiver that has a did keeps it.
as_absolute_keeping_did(self, did) ==
    unparse(IF self.did = None THEN did ELSE self.did[1],
            self.path, self.query, AsFragArg(self.fragment))

\* DIDUrl.as_absolute(self, did)
as_absolute(self, did) ==
    unparse(did, self.path, self.query, AsFragArg(self.fragment))

-----------------------------------------------------------------------------
(* The inputs the operations are applied to. *)

RECURSIVE StringsUpTo(_, _)
StringsUpTo(chars, n) ==
    IF n = 0 THEN {<< >>}
    ELSE LET shorter == StringsUpTo(chars, n - 1)
         IN  shorter \cup {Append(s, c) : s \in shorter, c \in chars}

DID1 == <<"d", "i", "d", ":", "a", ":", "1">>

DID2 == <<"d", "i", "d", ":", "b", ":", "2">>

TailChars == {"/", "?", "#", "=", "&", "a"}

\* Strings to parse: an optional DID, a short tail, and optionally the
\* DID text once more.
Urls == {h \o t \o r : h \in {<< >>, DID1},
                       t \in StringsUpTo(TailChars, MaxTail),
                       r \in {<< >>, DID1}}

\* The `did` arguments: a DID, and (unparse does not validate it) the empty
\* string and a string that is no DID.
DidArgs == {DID1, << >>, <<"a">>}

\* The DIDs as_absolute is given.
AbsDids == {DID1, DID2}

PathArgs == {None} \cup {Some(s) : s \in StringsUpTo({"/", "a", "?"}, MaxPathLen)}

QKeys == {<<"a">>, <<"&">>}

QVals == {<<"a">>, <<"=">>, << >>}

RECURSIVE DictsUpTo(_)
DictsUpTo(n) ==
    IF n = 0 THEN {<< >>}
    ELSE LET smaller == DictsUpTo(n - 1)
         IN  smaller \cup
             {Append(d, <<k, v>>) : d \in smaller, k \in QKeys, v \in QVals}

HasDistinctKeys(d) == \A i, j \in 1..Len(d) : d[i][1] = d[j][1] => i = j

QueryArgs == {None} \cup {Some(d) : d \in {e \in DictsUpTo(MaxPairs) : HasDistinctKeys(e)}}

FragArgs == {<<"none">>}
            \cup {<<"str", s>> : s \in {<< >>, <<"0">>, <<"a">>}}
            \cup {<<"int", n>> : n \in 0..MaxInt}

NoArg == [url |-> << >>, did |-> << >>, path |-> None, query |-> None,
          fragment |-> <<"none">>]

-----------------------------------------------------------------------------
(* The state machine: one call from the start state, then as_absolute on   *)
(* a DIDUrl that parse or unparse returned.                                *)

Init ==
    /\ pc = "start"
    /\ op = "none"
    /\ arg = NoArg
    /\ ret = Raise("none", << >>)
    /\ receiver = None

Parse ==
    /\ pc = "start"
    /\ \E s \in Urls :
         /\ arg' = [NoArg EXCEPT !.url = s]
         /\ ret' = parse(s)
    /\ op' = "parse"
    /\ pc' = "returned"
    /\ UNCHANGED receiver

Validate ==
    /\ pc = "start"
    /\ \E s \in Urls :
         /\ arg' = [NoArg EXCEPT !.url = s]
         /\ ret' = validate(s)
    /\ op' = "validate"
    /\ pc' = "returned"
    /\ UNCHANGED receiver

IsValid ==
    /\ pc = "start"
    /\ \E s \in Urls :
         /\ arg' = [NoArg EXCEPT !.url = s]
         /\ ret' = is_valid(s)
    /\ op' = "is_valid"
    /\ pc' = "returned"
    /\ UNCHANGED receiver

Unparse ==
    /\ pc = "start"
    /\ \E d \in DidArgs, p \in PathArgs, q \in QueryArgs, f \in FragArgs :
         /\ arg' = [NoArg EXCEPT !.did = d, !.path = p, !.query = q, !.fragment = f]
         /\ ret' = unparse(d, p, q, f)
    /\ op' = "unparse"
    /\ pc' = "returned"
    /\ UNCHANGED receiver

AsAbsolute ==
    /\ pc = "returned"
    /\ op \in {"parse", "unparse"}
    /\ ret.kind = "ok"
    /\ receiver' = ret.value
    /\ \E d \in AbsDids :
         /\ arg' = [NoArg EXCEPT !.did = d]
         /\ ret' = as_absolute(ret.value[1], d)
    /\ op' = "as_absolute"
    /\ pc' = "done"

Next == Parse \/ Validate \/ IsValid \/ Unparse \/ AsAbsolute

Spec == Init /\ [][Next]_vars

-----------------------------------------------------------------------------
(* The claims. *)

EndsWith(s, p) == /\ Len(s) >= Len(p)
                  /\ SubSeq(s, Len(s) - Len(p) + 1, Len(s)) = p

Returned == ret.kind = "ok"

Result == ret.value[1]

\* C1: parse(s) fails exactly when s matches neither the DID-part pattern
\* nor the relative-front pattern; every failure is an InvalidDIDUrlError
\* whose message contains s; every string with a DID-part match parses.
C1_FailsIffNoMatch ==
    op = "parse" =>
        /\ (~Returned) <=> (MatchDidPart(arg.url) = None /\ ~MatchRelativeFront(arg.url))
        /\ ~Returned => /\ ret.kind = "InvalidDIDUrlError"
                        /\ Contains(ret.msg, arg.url)
        /\ MatchDidPart(arg.url) /= None => Returned

\* The path unparse is claimed to store: '/' prepended when missing, absent
\* when the given path is null or empty.
NormalizedPath(path) ==
    IF path = None \/ path[1] = << >> THEN None
    ELSE IF path[1][1] = "/" THEN path
    ELSE Some(<<"/">> \o path[1])

\* The fragment unparse is claimed to store: the stringified fragment,
\* absent when the fragment is null or stringifies to the empty string.
StringifiedFragment(f) ==
    IF f[1] = "none" \/ FragStr(f) = << >> THEN None ELSE Some(FragStr(f))

\* A tuple of the kind unparse is meant for: a did that is a DID, a path
\* free of the '?' and '#' delimiters and of a leading '//', a query without
\* blank values.
WellFormedTuple ==
    /\ MatchDidPart(arg.did) = Some(arg.did)
    /\ arg.path /= None => /\ ~Contains(arg.path[1], <<"?">>)
                           /\ ~Contains(arg.path[1], <<"#">>)
                           /\ ~StartsWith(arg.path[1], <<"/", "/">>)
    /\ arg.query /= None => \A i \in 1..Len(arg.query[1]) : arg.query[1][i][2] /= << >>

\* C2: whenever unparse returns a value, its fields equal the normalized
\* inputs: the given did, the path with '/' prepended, the given mapping
\* (absent when empty or null), the stringified fragment (absent when null
\* or empty).  Stated for the well-formed tuples, where no delimiter of the
\* inputs moves a component boundary.
C2_ComposeThenParse ==
    (op = "unparse" /\ Returned /\ WellFormedTuple) =>
        /\ Result.did = Some(arg.did)
        /\ Result.path = NormalizedPath(arg.path)
        /\ Result.query = (IF Truthy(arg.query) THEN arg.query ELSE None)
        /\ Result.fragment = StringifiedFragment(arg.fragment)

\* The same fields, text aside.
SameFields(v, w) == /\ v.did = w.did
                    /\ v.path = w.path
                    /\ v.query = w.query
                    /\ v.fragment = w.fragment

\* C3: the text of parse(s) is s; the text of an unparse result is
\* did + path? + '?'+encoded query? + '#'+fragment? as unparse built it;
\* and parsing the text of any DIDUrl again yields the same did, path,
\* query and fragment.
C3_TextRoundTrip ==
    /\ (op \in {"parse", "validate"} /\ Returned) => Result.text = arg.url
    /\ (op = "unparse" /\ Returned) =>
          Result.text =
              arg.did
              \o (IF NormalizedPath(arg.path) = None THEN << >>
                  ELSE NormalizedPath(arg.path)[1])
              \o (IF Truthy(arg.query) THEN <<"?">> \o urlencode(arg.query[1])
                  ELSE << >>)
              \o (IF FragTruthy(arg.fragment) THEN <<"#">> \o FragStr(arg.fragment)
                  ELSE << >>)
    /\ (op \in {"parse", "validate", "unparse", "as_absolute"} /\ Returned) =>
          /\ parse(Result.text).kind = "ok"
          /\ SameFields(parse(Result.text).value[1], Result)

\* C3's case: unparse built a text from a path lacking its '/', a query
\* and a fragment, and returned it.
C3_Witness ==
    /\ op = "unparse"
    /\ Returned
    /\ arg.path = Some(<<"a">>)
    /\ Truthy(arg.query)
    /\ FragTruthy(arg.fragment)
    /\ Result.text /= arg.did

\* C4: the query of a parsed DIDUrl is absent or a non-empty mapping, never
\* an empty mapping.
C4_QueryNeverEmpty ==
    (op = "parse" /\ Returned) =>
        (Result.query = None \/ Result.query[1] /= << >>)

\* C5: for a fragment given as "0" or as numeric zero, unparse(did,
\* fragment=...) returns a DIDUrl whose text ends in '#0' and whose fragment
\* is "0".
C5_FalsyFragmentKept ==
    (/\ op = "unparse"
     /\ arg.did = DID1
     /\ arg.path = None
     /\ arg.query = None
     /\ arg.fragment \in {<<"str", <<"0">> >>, <<"int", 0>>}) =>
        /\ Returned
        /\ EndsWith(Result.text, <<"#", "0">>)
        /\ Result.fragment = Some(<<"0">>)

\* What as_absolute is compared with: parse(d + r) for the receiver's text r.
ParsedAbsolute == parse(arg.did \o receiver[1].text)

\* A relative receiver with a component present and no empty mapping as
\* its query.
PlainRelative(v) ==
    /\ v.did = None
    /\ ~(v.path = None /\ v.query = None /\ v.fragment = None)
    /\ v.query /= Some(<< >>)

C7_IsValidAgreesWithParse ==
    /\ op = "is_valid" =>
          /\ Returned
          /\ Result = TRUE <=> parse(arg.url).kind = "ok"
          /\ Result = FALSE <=> parse(arg.url).kind \in {"InvalidDIDUrlError", "ValueError"}
    /\ op = "validate" => ret = parse(arg.url)

\* C7's case: is_valid answered false for a string on which parse raises a
\* ValueError that is no InvalidDIDUrlError.
C7_Witness ==
    /\ op = "is_valid"
    /\ Returned
    /\ Result = FALSE
    /\ parse(arg.url).kind = "ValueError"

\* C8: whenever the DID-part pattern matches, parse succeeds, did is the
\* matched text and path, query and fragment are those of everything after
\* the first occurrence of that text, also when the text occurs again.
C8_LiteralSplit ==
    (op = "parse" /\ MatchDidPart(arg.url) /= None) =>
        /\ Returned
        /\ Result.did = MatchDidPart(arg.url)
        /\ SameFields(Result,
                      Decompose(arg.url, MatchDidPart(arg.url),
                                Tail2(arg.url, Len(MatchDidPart(arg.url)[1]) + 1)))

\* C9: a DIDUrl that parse returns without a did has a path, a query or a
\* fragment.
C9_RelativeShape ==
    (op = "parse" /\ Returned /\ Result.did = None) =>
        ~(Result.path = None /\ Result.query = None /\ Result.fragment = None)

\* C10: the path of a DIDUrl that parse or unparse returns is absent or a
\* non-empty string starting with '/'.
C10_PathShape ==
    (op \in {"parse", "unparse"} /\ Returned /\ Result.path /= None) =>
        /\ Result.path[1] /= << >>
        /\ Result.path[1][1] = "/"

====
